---- MODULE Spec2Model ----
(***************************************************************************)
(* Vehicle-purchase SAGA: the orchestrator (services/orquestrador/app.py), *)
(* the credit participant (services/cliente-service/app.py), the vehicle   *)
(* participant (services/veiculo-service/app.py), the payment participant  *)
(* (services/pagamento-service/app.py) and the publish-subscribe bus       *)
(* between them.                                                           *)
(*                                                                         *)
(* Money is a binary floating-point number (Column(Float), Python float):  *)
(* every sum and difference is rounded to the nearest representable value, *)
(* ties to even.  The model keeps the rounding and scales the mantissa     *)
(* down to MantissaBits bits; amounts are whole multiples of the smallest  *)
(* unit.                                                                   *)
(*                                                                         *)
(* Every handler is an asyncio task on its service's single event loop, so *)
(* a handler is atomic between two awaits that really suspend; handlers    *)
(* that write after such an await (cancel_purchase,                        *)
(* handle_payment_processed_event) are split at the await.                 *)
(*                                                                         *)
(* Specifications:                                                         *)
(*   Spec        the four services and the bus, at-least-once delivery     *)
(*   OrchSpec    the orchestrator alone, its event topics fed with every   *)
(*               event of the shared schema                                *)
(*   CreditSpec  the credit participant alone, fed with every command      *)
(*   VehicleSpec the vehicle participant alone, fed with every command and *)
(*               HTTP call                                                 *)
(*   PaymentSpec the payment participant alone, fed with every command,    *)
(*               and its clock                                             *)
(*   PurchaseSpec POST /purchase and the ReserveCredit it publishes, from  *)
(*               every account and every vehicle row                       *)
(*   SettleSpec  the orchestrator fed with every event, the payment        *)
(*               commands it publishes delivered to the payment            *)
(*               participant                                               *)
(***************************************************************************)
EXTENDS Integers, FiniteSets, Sequences, TLC

\* ------------------------------------------------------------------ bounds
\* Sagas started, redeliveries by the bus, rows of the customers and vehicles
\* tables, the price of a vehicle, the largest amount of money, and the
\* width of the float mantissa.
MaxTx == 1
MaxDup == 1
NumCustomers == 1
NumVehicles == 1
Price == 2
MaxMoney == 16
MantissaBits == 3
\* The lifetime of a payment code and the last instant of the clock, in ticks.
CodeLifetime == 2
MaxClock == 3

TxIds == 1..MaxTx
CustomerIds == 1..NumCustomers
VehicleIds == 1..NumVehicles
NoSuchId == 0
PaymentTypes == {"cash", "credit"}

\* ------------------------------------------------------------ state space
VARIABLES
    saga,          \* orchestrator: saga_states table, by transaction_id
    nextTx,        \* orchestrator: next fresh transaction_id
    cancelTask,    \* orchestrator: cancel requests suspended at the publish
    soldTask,      \* orchestrator: PaymentProcessed handlers awaiting the PATCH
    httpResp,      \* orchestrator: the HTTP answer given by the last step
    customers,     \* credit participant: customers table
    vehicles,      \* vehicle participant: vehicles table
    payment_codes, \* payment participant: payment_codes table, by transaction_id
    payments,      \* payment participant: payments table, by transaction_id
    now,           \* payment participant: the clock read by datetime.now()
    commands,      \* bus: commands in flight
    events,        \* bus: events in flight
    dups,          \* bus: redeliveries so far
    sent,          \* the messages published by the last step
    pre,           \* history: the customer's account when the saga started
    applied,       \* history: deductions committed per transaction_id
    rt             \* history: the last reserve-then-release pair observed

vars == <<saga, nextTx, cancelTask, soldTask, httpResp, customers, vehicles,
          payment_codes, payments, now, commands, events, dups, sent, pre,
          applied, rt>>

orchVars == <<saga, nextTx, cancelTask, soldTask, pre>>
busVars == <<commands, events, dups>>

\* ---------------------------------------------------------------- schema
TerminalStatuses ==
    {"COMPLETED", "CANCELLED", "FAILED", "FAILED_COMPENSATED",
     "FAILED_REQUIRES_MANUAL_INTERVENTION"}

CancellationStatuses == {"CANCELLATION_REQUESTED", "CANCELLING", "CANCELLED"}

NoSaga ==
    [status |-> "NONE", current_step |-> "NONE", customer_id |-> NoSuchId,
     vehicle_id |-> NoSuchId, amount |-> 0, payment_type |-> "none"]

NoCode == [code |-> 0, customer_id |-> NoSuchId, vehicle_id |-> NoSuchId,
           amount |-> 0, expires_at |-> 0, is_used |-> FALSE]

NoPayment == [status |-> "none", amount |-> 0]

NoAccount == [account_balance |-> 0, credit_limit |-> 0, used_credit |-> 0]

NoResp == [op |-> "none", transaction_id |-> 0, code |-> 0]

NoRt == [phase |-> "idle", transaction_id |-> 0, customer_id |-> NoSuchId,
         amount |-> 0, payment_type |-> "none", before |-> NoAccount]

Msg(kind, t, c, v, a, pt) ==
    [kind |-> kind, transaction_id |-> t, customer_id |-> c, vehicle_id |-> v,
     amount |-> a, payment_type |-> pt]

EventKinds ==
    {"CreditReserved", "CreditReservationFailed", "CreditReleased",
     "VehicleReserved", "VehicleReservationFailed", "VehicleReleased",
     "PaymentCodeGenerated", "PaymentCodeGenerationFailed",
     "PaymentProcessed", "PaymentFailed", "PaymentRefunded",
     "PaymentRefundFailed"}

\* The fields without a default of each event class of shared/models.py.
RequiredFields(kind) ==
    CASE kind = "CreditReserved" ->
            {"transaction_id", "customer_id", "amount", "payment_type"}
      [] kind = "CreditReservationFailed" ->
            {"transaction_id", "customer_id", "amount", "payment_type", "reason"}
      [] kind = "CreditReleased" ->
            {"transaction_id", "customer_id", "amount", "payment_type"}
      [] kind = "VehicleReserved" ->
            {"transaction_id", "vehicle_id", "vehicle_price"}
      [] kind = "VehicleReservationFailed" ->
            {"transaction_id", "vehicle_id", "reason"}
      [] kind = "VehicleReleased" ->
            {"transaction_id", "vehicle_id"}
      [] kind = "PaymentCodeGenerated" ->
            {"transaction_id", "payment_code", "customer_id", "vehicle_id",
             "amount", "payment_type", "expires_at"}
      [] kind = "PaymentProcessed" ->
            {"transaction_id", "payment_id", "payment_code", "customer_id",
             "vehicle_id", "amount", "payment_type", "payment_method"}
      [] kind = "PaymentFailed" ->
            {"transaction_id", "payment_code", "customer_id", "vehicle_id",
             "amount", "payment_type", "reason"}
      [] OTHER -> {}

\* publish_event(topic, Event(**given)): constructing the event raises
\* ValidationError when a required field is not given (extra fields are
\* ignored); every handler catches it, acknowledges and publishes nothing.
publish_event(kind, given, t, c, v, a, pt) ==
    IF RequiredFields(kind) \subseteq given THEN {Msg(kind, t, c, v, a, pt)} ELSE {}

\* ------------------------------------------------------- float arithmetic
RECURSIVE Pow2(_)
Pow2(n) == IF n = 0 THEN 1 ELSE 2 * Pow2(n - 1)

\* The spacing of the floats around x >= 0, starting the search at q.
RECURSIVE Ulp(_, _)
Ulp(x, q) == IF x < Pow2(MantissaBits) * q THEN q ELSE Ulp(x, 2 * q)

\* x >= 0 rounded to the nearest float, ties to the even mantissa.
RoundNearestEven(x) ==
    LET q == Ulp(x, 1)
        lo == (x \div q) * q
        hi == lo + q
    IN  IF x - lo < hi - x THEN lo
        ELSE IF x - lo > hi - x THEN hi
        ELSE IF (lo \div q) % 2 = 0 THEN lo ELSE hi

Fl(x) == IF x >= 0 THEN RoundNearestEven(x) ELSE 0 - RoundNearestEven(0 - x)

\* float + float and float - float
fadd(x, y) == Fl(x + y)
fsub(x, y) == Fl(x - y)

\* The floats of the model.
Money == {x \in 0..MaxMoney : Fl(x) = x}

\* CustomerDB.available_credit
Max(a, b) == IF a >= b THEN a ELSE b
available_credit(cust) == Max(0, fsub(cust.credit_limit, cust.used_credit))

\* ============================================================ credit participant
\* handle_reserve_credit_command: the failure answers are built without the
\* amount and payment_type fields.
CreditFailedGiven == {"transaction_id", "customer_id", "reason"}

CreditReservedGiven ==
    {"transaction_id", "customer_id", "reserved_amount", "amount",
     "payment_type", "used_balance"}

CreditReleasedGiven ==
    {"transaction_id", "customer_id", "amount", "payment_type", "new_balance",
     "new_available_credit"}

\* The deduction with a cash reserve also booked as used credit.
ReserveDeductCashAsCreditToo(cust, a, pt) ==
    IF pt = "cash"
    THEN [cust EXCEPT !.account_balance = fsub(cust.account_balance, a),
                      !.used_credit = fadd(cust.used_credit, a)]
    ELSE [cust EXCEPT !.used_credit = fadd(cust.used_credit, a)]

\* The deduction of handle_reserve_credit_command.
ReserveDeduct(cust, a, pt) ==
    IF pt = "cash"
    THEN [cust EXCEPT !.account_balance = fsub(cust.account_balance, a)]
    ELSE [cust EXCEPT !.used_credit = fadd(cust.used_credit, a)]

\* The checks of handle_reserve_credit_command with >= in place of >: an amount
\* equal to the funds is refused.
ReserveRejectedAtEquality(cust, a, pt) ==
    \/ pt = "cash" /\ a >= cust.account_balance
    \/ pt = "credit" /\ a >= available_credit(cust)
    \/ pt \notin {"cash", "credit"}

\* The checks of handle_reserve_credit_command that answer with a failure.
ReserveRejected(cust, a, pt) ==
    \/ pt = "cash" /\ a > cust.account_balance
    \/ pt = "credit" /\ a > available_credit(cust)
    \/ pt \notin {"cash", "credit"}

\* The refund of handle_release_credit_command.
ReleaseRefund(cust, a, pt) ==
    IF pt = "cash"
    THEN [cust EXCEPT !.account_balance = fadd(cust.account_balance, a)]
    ELSE [cust EXCEPT !.used_credit = Max(0, fsub(cust.used_credit, a))]

handle_reserve_credit_command(m) ==
    LET t == m.transaction_id
        c == m.customer_id
        a == m.amount
        pt == m.payment_type
    IN  IF c \notin CustomerIds
        THEN /\ sent' = publish_event("CreditReservationFailed", CreditFailedGiven,
                                      t, c, 0, a, pt)
             /\ UNCHANGED customers
        ELSE IF ReserveRejected(customers[c], a, pt)
        THEN /\ sent' = publish_event("CreditReservationFailed", CreditFailedGiven,
                                      t, c, 0, a, pt)
             /\ UNCHANGED customers
        ELSE /\ customers' = [customers EXCEPT ![c] = ReserveDeduct(@, a, pt)]
             /\ sent' = publish_event("CreditReserved", CreditReservedGiven,
                                      t, c, 0, a, pt)

handle_release_credit_command(m) ==
    LET t == m.transaction_id
        c == m.customer_id
        a == m.amount
        pt == m.payment_type
    IN  IF c \notin CustomerIds
        THEN /\ sent' = {}
             /\ UNCHANGED customers
        ELSE /\ customers' = [customers EXCEPT ![c] = ReleaseRefund(@, a, pt)]
             /\ sent' = publish_event("CreditReleased", CreditReleasedGiven,
                                      t, c, 0, a, pt)

\* =========================================================== vehicle participant
VehicleReservedGiven == {"transaction_id", "vehicle_id", "vehicle_price"}
VehicleFailedGiven == {"transaction_id", "vehicle_id", "reason"}
VehicleReleasedGiven == {"transaction_id", "vehicle_id"}

handle_reserve_vehicle_command(m) ==
    LET t == m.transaction_id
        v == m.vehicle_id
    IN  IF v \notin VehicleIds
        THEN /\ sent' = publish_event("VehicleReservationFailed", VehicleFailedGiven,
                                      t, 0, v, 0, "none")
             /\ UNCHANGED vehicles
        ELSE IF vehicles[v].is_reserved \/ vehicles[v].is_sold
        THEN /\ sent' = publish_event("VehicleReservationFailed", VehicleFailedGiven,
                                      t, 0, v, 0, "none")
             /\ UNCHANGED vehicles
        ELSE /\ vehicles' = [vehicles EXCEPT ![v].is_reserved = TRUE]
             /\ sent' = publish_event("VehicleReserved", VehicleReservedGiven,
                                      t, 0, v, 0, "none")

handle_release_vehicle_command(m) ==
    LET t == m.transaction_id
        v == m.vehicle_id
    IN  IF v \notin VehicleIds
        THEN /\ sent' = {}
             /\ UNCHANGED vehicles
        ELSE /\ vehicles' = IF vehicles[v].is_reserved /\ ~vehicles[v].is_sold
                            THEN [vehicles EXCEPT ![v].is_reserved = FALSE]
                            ELSE vehicles
             /\ sent' = publish_event("VehicleReleased", VehicleReleasedGiven,
                                      t, 0, v, 0, "none")

\* SoldRow without the write "vehicle.is_reserved = False".
SoldRowKeepsReservation(veh) == [veh EXCEPT !.is_sold = TRUE]

\* PATCH /vehicles/{id}/mark_as_sold: the writes to the row.
SoldRow(veh) == [veh EXCEPT !.is_sold = TRUE, !.is_reserved = FALSE]

mark_vehicle_as_sold(v) ==
    IF v \notin VehicleIds
    THEN /\ httpResp' = [op |-> "mark_as_sold", transaction_id |-> 0, code |-> 404]
         /\ UNCHANGED vehicles
    ELSE /\ vehicles' = [vehicles EXCEPT ![v] = SoldRow(@)]
         /\ httpResp' = [op |-> "mark_as_sold", transaction_id |-> 0, code |-> 200]

\* PUT /vehicles/{id}: VehicleUpdate carries no is_reserved / is_sold field;
\* the price is the one field of the update the model keeps.  The 404 and
\* 400 raised inside the try block are caught by "except Exception" and
\* answered as 500.
update_vehicle(v, price) ==
    IF v \notin VehicleIds
    THEN /\ httpResp' = [op |-> "update_vehicle", transaction_id |-> 0, code |-> 500]
         /\ UNCHANGED vehicles
    ELSE IF vehicles[v].is_reserved \/ vehicles[v].is_sold
    THEN /\ httpResp' = [op |-> "update_vehicle", transaction_id |-> 0, code |-> 500]
         /\ UNCHANGED vehicles
    ELSE /\ vehicles' = [vehicles EXCEPT ![v].price = price]
         /\ httpResp' = [op |-> "update_vehicle", transaction_id |-> 0, code |-> 200]

\* =========================================================== payment participant
\* PaymentCodeGeneratedEvent is built without its payment_type field.
CodeGeneratedGiven ==
    {"transaction_id", "payment_code", "customer_id", "vehicle_id", "amount",
     "expires_at"}

handle_generate_payment_code_command(m) ==
    LET t == m.transaction_id
    IN  IF payment_codes[t] # NoCode
        THEN /\ sent' = publish_event("PaymentCodeGenerated", CodeGeneratedGiven,
                                      t, m.customer_id, m.vehicle_id, m.amount,
                                      m.payment_type)
             /\ UNCHANGED payment_codes
        ELSE /\ payment_codes' =
                    [payment_codes EXCEPT ![t] =
                        [code |-> t, customer_id |-> m.customer_id,
                         vehicle_id |-> m.vehicle_id, amount |-> m.amount,
                         expires_at |-> now + CodeLifetime, is_used |-> FALSE]]
             /\ sent' = publish_event("PaymentCodeGenerated", CodeGeneratedGiven,
                                      t, m.customer_id, m.vehicle_id, m.amount,
                                      m.payment_type)

PaymentFailedGiven ==
    {"transaction_id", "payment_code", "customer_id", "vehicle_id", "amount",
     "reason"}

PaymentProcessedGiven ==
    {"transaction_id", "payment_id", "payment_code", "customer_id",
     "vehicle_id", "amount", "payment_method", "status"}

\* The expiry check of handle_process_payment_command.
CodeExpired(row) == now > row.expires_at

\* The payment code of a saga is looked up by the command's payment_code; the
\* model names the code of transaction t by t.
handle_process_payment_command(m) ==
    LET t == m.transaction_id
        failed(c, v, a) ==
            /\ sent' = publish_event("PaymentFailed", PaymentFailedGiven,
                                     t, c, v, a, "none")
            /\ UNCHANGED <<payment_codes, payments>>
    IN  IF t \notin TxIds THEN failed(0, 0, 0)
        ELSE LET row == payment_codes[t]
             IN  IF row = NoCode THEN failed(0, 0, 0)
                 ELSE IF row.is_used \/ CodeExpired(row)
                 THEN failed(row.customer_id, row.vehicle_id, row.amount)
                 ELSE IF payments[t] # NoPayment
                 THEN /\ sent' =
                            IF payments[t].status = "completed"
                            THEN publish_event("PaymentProcessed",
                                               PaymentProcessedGiven, t,
                                               row.customer_id, row.vehicle_id,
                                               payments[t].amount, "none")
                            ELSE publish_event("PaymentFailed", PaymentFailedGiven,
                                               t, row.customer_id, row.vehicle_id,
                                               payments[t].amount, "none")
                      /\ UNCHANGED <<payment_codes, payments>>
                 ELSE /\ payment_codes' = [payment_codes EXCEPT ![t].is_used = TRUE]
                      /\ payments' = [payments EXCEPT ![t] =
                                         [status |-> "completed",
                                          amount |-> row.amount]]
                      /\ sent' = publish_event("PaymentProcessed",
                                               PaymentProcessedGiven, t,
                                               row.customer_id, row.vehicle_id,
                                               row.amount, "none")

\* ================================================================= orchestrator
CommandKinds ==
    {"ReserveCredit", "ReleaseCredit", "ReserveVehicle", "ReleaseVehicle",
     "GeneratePaymentCode", "ProcessPayment", "RefundPayment"}

Cmds(S) == {m \in S : m.kind \in CommandKinds}
Evts(S) == {m \in S : m.kind \notin CommandKinds}

\* services/orquestrador/app.py calls publish_event but neither defines nor
\* imports it: the call raises NameError before anything is published.
OrchPublishEventDefined == FALSE

ReserveCreditCommand(t) ==
    Msg("ReserveCredit", t, saga[t].customer_id, 0, saga[t].amount,
        saga[t].payment_type)
ReleaseCreditCommand(t) ==
    Msg("ReleaseCredit", t, saga[t].customer_id, 0, saga[t].amount,
        saga[t].payment_type)
ReserveVehicleCommand(t) == Msg("ReserveVehicle", t, 0, saga[t].vehicle_id, 0, "none")
ReleaseVehicleCommand(t) == Msg("ReleaseVehicle", t, 0, saga[t].vehicle_id, 0, "none")
GeneratePaymentCodeCommand(t) ==
    Msg("GeneratePaymentCode", t, saga[t].customer_id, saga[t].vehicle_id,
        saga[t].amount, saga[t].payment_type)
ProcessPaymentCommand(t) == Msg("ProcessPayment", t, 0, 0, 0, "none")

\* Exists without the test of the row found.
ExistsWithoutRowCheck(t) == t \in TxIds

Exists(t) == t \in TxIds /\ saga[t] # NoSaga

\* The write of a handler that sets status and current_step and commits.
Transition(t, st, step) ==
    saga' = [saga EXCEPT ![t].status = st, ![t].current_step = step]

OrchFrame ==
    /\ httpResp' = NoResp
    /\ UNCHANGED <<nextTx, cancelTask, soldTask, pre>>

\* publish_command: the publisher either accepts the message or raises; the
\* exception is logged inside publish_command and not raised again, so the
\* caller continues as after a publish.
PublishOutcomes == {"published", "publish_failed"}
publish_command(outcome, m) == IF outcome = "published" THEN {m} ELSE {}

\* The saga_status field of the 202 body of POST /purchase.
PurchaseResponseSagaStatus == "IN_PROGRESS"

\* start_purchase_saga with the saga row committed before the funding check
\* instead of after it.
start_purchase_saga_row_before_funding_check(c, v, pt) ==
    LET t == nextTx
        row == [status |-> "STARTED", current_step |-> "CREDIT_RESERVATION",
                customer_id |-> c, vehicle_id |-> v,
                amount |-> vehicles[v].price, payment_type |-> pt]
        reject(code) ==
            /\ httpResp' = [op |-> "purchase", transaction_id |-> 0, code |-> code]
            /\ sent' = {}
            /\ UNCHANGED <<saga, nextTx, cancelTask, soldTask, pre>>
        underfunded ==
            \/ pt = "cash" /\ customers[c].account_balance < vehicles[v].price
            \/ pt = "credit" /\ available_credit(customers[c]) < vehicles[v].price
    IN  IF v \notin VehicleIds THEN reject(404)
        ELSE IF vehicles[v].is_sold \/ vehicles[v].is_reserved THEN reject(400)
        ELSE IF vehicles[v].price <= 0 THEN reject(400)
        ELSE IF c \notin CustomerIds THEN reject(404)
        ELSE /\ t \in TxIds
             /\ saga' = [saga EXCEPT ![t] = row]
             /\ nextTx' = nextTx + 1
             /\ pre' = [pre EXCEPT ![t] = customers[c]]
             /\ UNCHANGED <<cancelTask, soldTask>>
             /\ IF underfunded
                THEN /\ sent' = {}
                     /\ httpResp' = [op |-> "purchase", transaction_id |-> 0,
                                     code |-> 400]
                ELSE /\ sent' = {Msg("ReserveCredit", t, c, 0, vehicles[v].price, pt)}
                     /\ httpResp' = [op |-> "purchase", transaction_id |-> t,
                                     code |-> 202]

\* POST /purchase
start_purchase_saga(c, v, pt) ==
    LET t == nextTx
        reject(code) ==
            /\ httpResp' = [op |-> "purchase", transaction_id |-> 0, code |-> code]
            /\ sent' = {}
            /\ UNCHANGED <<saga, nextTx, cancelTask, soldTask, pre>>
    IN  IF v \notin VehicleIds THEN reject(404)
        ELSE IF vehicles[v].is_sold \/ vehicles[v].is_reserved THEN reject(400)
        ELSE IF vehicles[v].price <= 0 THEN reject(400)
        ELSE IF c \notin CustomerIds THEN reject(404)
        ELSE IF pt = "cash" /\ customers[c].account_balance < vehicles[v].price
        THEN reject(400)
        ELSE IF pt = "credit" /\ available_credit(customers[c]) < vehicles[v].price
        THEN reject(400)
        ELSE /\ t \in TxIds
             /\ saga' = [saga EXCEPT ![t] =
                    [status |-> "STARTED", current_step |-> "CREDIT_RESERVATION",
                     customer_id |-> c, vehicle_id |-> v,
                     amount |-> vehicles[v].price, payment_type |-> pt]]
             /\ nextTx' = nextTx + 1
             /\ pre' = [pre EXCEPT ![t] = customers[c]]
             /\ \E outcome \in PublishOutcomes :
                    sent' = publish_command(
                                outcome,
                                Msg("ReserveCredit", t, c, 0, vehicles[v].price, pt))
             /\ httpResp' = [op |-> "purchase", transaction_id |-> t, code |-> 202]
             /\ UNCHANGED <<cancelTask, soldTask>>

\* Every event handler on a payload that model_validate_json refuses: the
\* ValidationError is logged and the message acknowledged.
handle_invalid_event ==
    /\ UNCHANGED saga
    /\ sent' = {}
    /\ OrchFrame

handle_credit_reserved_event(m) ==
    LET t == m.transaction_id
    IN  /\ IF Exists(t)
           THEN /\ Transition(t, "IN_PROGRESS", "VEHICLE_RESERVATION")
                /\ sent' = {ReserveVehicleCommand(t)}
           ELSE /\ UNCHANGED saga
                /\ sent' = {}
        /\ OrchFrame

handle_credit_reservation_failed_event(m) ==
    LET t == m.transaction_id
    IN  /\ IF Exists(t)
           THEN Transition(t, "FAILED", "CREDIT_RESERVATION_FAILED")
           ELSE UNCHANGED saga
        /\ sent' = {}
        /\ OrchFrame

\* Reached from handle_credit_released_event when the status is CANCELLING.
handle_cancellation_credit_released_event(m) ==
    LET t == m.transaction_id
    IN  IF /\ saga[t].status = "CANCELLING"
           /\ saga[t].current_step = "CANCELLATION_CREDIT_RELEASE"
           /\ OrchPublishEventDefined
        THEN /\ Transition(t, "CANCELLED", "CANCELLATION_COMPLETE")
             /\ sent' = {Msg("PurchaseCancelled", t, saga[t].customer_id,
                             saga[t].vehicle_id, 0, "none")}
        ELSE \* NameError -> rollback, or not the awaited step
             /\ UNCHANGED saga
             /\ sent' = {}

\* handle_credit_released_event with the compensation branch taken for every
\* saga found, whatever its status and step.
handle_credit_released_event_unguarded(m) ==
    LET t == m.transaction_id
    IN  /\ IF ~Exists(t)
           THEN /\ UNCHANGED saga
                /\ sent' = {}
           ELSE IF saga[t].status = "CANCELLING"
           THEN handle_cancellation_credit_released_event(m)
           ELSE /\ Transition(t, "FAILED_COMPENSATED", "COMPENSATION_COMPLETE")
                /\ sent' = {}
        /\ OrchFrame

handle_credit_released_event(m) ==
    LET t == m.transaction_id
    IN  /\ IF ~Exists(t)
           THEN /\ UNCHANGED saga
                /\ sent' = {}
           ELSE IF saga[t].status = "CANCELLING"
           THEN handle_cancellation_credit_released_event(m)
           ELSE IF /\ saga[t].status = "COMPENSATING"
                   /\ saga[t].current_step = "CREDIT_RELEASE"
           THEN /\ Transition(t, "FAILED_COMPENSATED", "COMPENSATION_COMPLETE")
                /\ sent' = {}
           ELSE /\ UNCHANGED saga
                /\ sent' = {}
        /\ OrchFrame

handle_vehicle_reserved_event(m) ==
    LET t == m.transaction_id
    IN  /\ IF Exists(t)
           THEN /\ Transition(t, "IN_PROGRESS", "PAYMENT_CODE_GENERATION")
                /\ sent' = {GeneratePaymentCodeCommand(t)}
           ELSE /\ UNCHANGED saga
                /\ sent' = {}
        /\ OrchFrame

handle_vehicle_reservation_failed_event(m) ==
    LET t == m.transaction_id
    IN  /\ IF Exists(t)
           THEN /\ Transition(t, "COMPENSATING", "CREDIT_RELEASE")
                /\ sent' = {ReleaseCreditCommand(t)}
           ELSE /\ UNCHANGED saga
                /\ sent' = {}
        /\ OrchFrame

\* Reached from handle_vehicle_released_event when the status is CANCELLING.
handle_cancellation_vehicle_released_event(m) ==
    LET t == m.transaction_id
    IN  IF /\ saga[t].status = "CANCELLING"
           /\ saga[t].current_step = "CANCELLATION_VEHICLE_RELEASE"
        THEN /\ saga' = [saga EXCEPT ![t].current_step = "CANCELLATION_CREDIT_RELEASE"]
             /\ sent' = {ReleaseCreditCommand(t)}
        ELSE /\ UNCHANGED saga
             /\ sent' = {}

handle_vehicle_released_event(m) ==
    LET t == m.transaction_id
    IN  /\ IF ~Exists(t)
           THEN /\ UNCHANGED saga
                /\ sent' = {}
           ELSE IF saga[t].status = "CANCELLING"
           THEN handle_cancellation_vehicle_released_event(m)
           ELSE IF /\ saga[t].status = "COMPENSATING"
                   /\ saga[t].current_step = "VEHICLE_RELEASE"
           THEN /\ saga' = [saga EXCEPT ![t].current_step = "CREDIT_RELEASE"]
                /\ sent' = {ReleaseCreditCommand(t)}
           ELSE /\ UNCHANGED saga
                /\ sent' = {}
        /\ OrchFrame

handle_payment_code_generated_event(m) ==
    LET t == m.transaction_id
    IN  /\ IF Exists(t)
           THEN /\ Transition(t, "IN_PROGRESS", "PAYMENT_PROCESSING")
                /\ sent' = {ProcessPaymentCommand(t)}
           ELSE /\ UNCHANGED saga
                /\ sent' = {}
        /\ OrchFrame

handle_payment_code_generation_failed_event(m) ==
    LET t == m.transaction_id
    IN  /\ IF Exists(t)
           THEN /\ Transition(t, "COMPENSATING", "VEHICLE_RELEASE")
                /\ sent' = {ReleaseVehicleCommand(t)}
           ELSE /\ UNCHANGED saga
                /\ sent' = {}
        /\ OrchFrame

\* handle_payment_processed_event up to the await of the PATCH.
handle_payment_processed_event(m) ==
    LET t == m.transaction_id
    IN  /\ IF Exists(t)
           THEN /\ Transition(t, "IN_PROGRESS", "MARK_VEHICLE_AS_SOLD")
                /\ soldTask' = [soldTask EXCEPT ![t] = TRUE]
           ELSE UNCHANGED <<saga, soldTask>>
        /\ sent' = {}
        /\ httpResp' = NoResp
        /\ UNCHANGED <<nextTx, cancelTask, pre>>

\* handle_payment_processed_event from the answer of the PATCH on:
\* "ok" the vehicle service marked the vehicle sold, "http_error" it answered
\* with an error status, "transport_error" the call raised anything else.
MarkAsSoldOutcomes == {"ok", "http_error", "transport_error"}

payment_processed_resume(t, outcome) ==
    /\ soldTask[t]
    /\ soldTask' = [soldTask EXCEPT ![t] = FALSE]
    /\ IF outcome = "ok"
       THEN /\ vehicles' = [vehicles EXCEPT ![saga[t].vehicle_id] =
                                SoldRow(@)]
            /\ Transition(t, "COMPLETED", "SAGA_COMPLETE")
       ELSE IF outcome = "http_error"
       THEN /\ UNCHANGED vehicles
            /\ Transition(t, "FAILED_REQUIRES_MANUAL_INTERVENTION",
                          "MARK_VEHICLE_AS_SOLD_FAILED")
       ELSE UNCHANGED <<vehicles, saga>>
    /\ sent' = {}
    /\ httpResp' = NoResp
    /\ UNCHANGED <<nextTx, cancelTask, pre>>

handle_payment_failed_event(m) ==
    LET t == m.transaction_id
    IN  /\ IF Exists(t)
           THEN /\ Transition(t, "COMPENSATING", "VEHICLE_RELEASE")
                /\ sent' = {ReleaseVehicleCommand(t)}
           ELSE /\ UNCHANGED saga
                /\ sent' = {}
        /\ OrchFrame

handle_payment_refunded_event(m) ==
    LET t == m.transaction_id
    IN  /\ IF /\ Exists(t)
              /\ saga[t].status = "COMPENSATING"
              /\ saga[t].current_step = "PAYMENT_REFUND"
           THEN Transition(t, "FAILED_COMPENSATED", "COMPENSATION_COMPLETE")
           ELSE UNCHANGED saga
        /\ sent' = {}
        /\ OrchFrame

handle_payment_refund_failed_event(m) ==
    LET t == m.transaction_id
    IN  /\ IF Exists(t)
           THEN Transition(t, "FAILED_REQUIRES_MANUAL_INTERVENTION",
                           "PAYMENT_REFUND_FAILED")
           ELSE UNCHANGED saga
        /\ sent' = {}
        /\ OrchFrame

\* The statuses cancel_purchase answers 400 and 409 for.
CancelRejected400 == {"COMPLETED", "CANCELLED", "FAILED", "FAILED_COMPENSATED"}
CancelRejected409 == {"CANCELLING", "CANCELLATION_REQUESTED"}

\* initiate_cancellation_process up to the await of the publish: the status
\* is committed as CANCELLING, the release command is handed to the
\* publisher, and the new current_step is written only after the await.
initiate_cancellation_process(t) ==
    LET step == saga[t].current_step
    IN  IF step \in {"CREDIT_RESERVATION", "STARTED"}
        THEN /\ saga' = [saga EXCEPT ![t].status = "CANCELLING"]
             /\ sent' = {ReleaseCreditCommand(t)}
             /\ cancelTask' = [cancelTask EXCEPT ![t] = "CANCELLATION_CREDIT_RELEASE"]
             /\ httpResp' = NoResp
        ELSE IF step \in {"VEHICLE_RESERVATION", "PAYMENT_CODE_GENERATION",
                          "PAYMENT_PROCESSING"}
        THEN /\ saga' = [saga EXCEPT ![t].status = "CANCELLING"]
             /\ sent' = {ReleaseVehicleCommand(t)}
             /\ cancelTask' = [cancelTask EXCEPT ![t] = "CANCELLATION_VEHICLE_RELEASE"]
             /\ httpResp' = NoResp
        ELSE \* MARK_VEHICLE_AS_SOLD, SAGA_COMPLETE or an unknown step
             /\ saga' = [saga EXCEPT ![t].status = "CANCELLATION_FAILED"]
             /\ sent' = IF OrchPublishEventDefined
                        THEN {Msg("PurchaseCancellationFailed", t, 0, 0, 0, "none")}
                        ELSE {}
             /\ httpResp' = [op |-> "cancel", transaction_id |-> t, code |-> 200]
             /\ UNCHANGED cancelTask

\* cancel_purchase without the "if not saga_state" check: reading the status
\* of no row raises AttributeError, answered as 500.
cancel_purchase_without_lookup_check(t) ==
    LET reject(code) ==
            /\ httpResp' = [op |-> "cancel", transaction_id |-> t, code |-> code]
            /\ sent' = {}
            /\ UNCHANGED <<saga, cancelTask>>
    IN  /\ IF ~Exists(t) THEN reject(500)
           ELSE IF saga[t].status \in CancelRejected400 THEN reject(400)
           ELSE IF saga[t].status \in CancelRejected409 THEN reject(409)
           ELSE initiate_cancellation_process(t)
        /\ UNCHANGED <<nextTx, soldTask, pre>>

\* POST /purchase/{transaction_id}/cancel
cancel_purchase(t) ==
    LET reject(code) ==
            /\ httpResp' = [op |-> "cancel", transaction_id |-> t, code |-> code]
            /\ sent' = {}
            /\ UNCHANGED <<saga, cancelTask>>
    IN  /\ IF ~Exists(t) THEN reject(404)
           ELSE IF saga[t].status \in CancelRejected400 THEN reject(400)
           ELSE IF saga[t].status \in CancelRejected409 THEN reject(409)
           ELSE initiate_cancellation_process(t)
        /\ UNCHANGED <<nextTx, soldTask, pre>>

\* initiate_cancellation_process after the await of the publish, and the
\* 200 answer of cancel_purchase.
cancel_purchase_resume(t) ==
    /\ cancelTask[t] # "none"
    /\ saga' = [saga EXCEPT ![t].current_step = cancelTask[t]]
    /\ cancelTask' = [cancelTask EXCEPT ![t] = "none"]
    /\ httpResp' = [op |-> "cancel", transaction_id |-> t, code |-> 200]
    /\ sent' = {}
    /\ UNCHANGED <<nextTx, soldTask, pre>>

\* ========================================================== initial states
FreshVehicle == [price |-> Price, is_reserved |-> FALSE, is_sold |-> FALSE]

\* POST /customers creates an account with used_credit = 0.
NewAccounts(balances, limits) ==
    {[account_balance |-> b, credit_limit |-> l, used_credit |-> 0] :
        b \in balances, l \in limits}

InitCommon ==
    /\ saga = [t \in TxIds |-> NoSaga]
    /\ nextTx = 1
    /\ cancelTask = [t \in TxIds |-> "none"]
    /\ soldTask = [t \in TxIds |-> FALSE]
    /\ httpResp = NoResp
    /\ vehicles = [v \in VehicleIds |-> FreshVehicle]
    /\ payment_codes = [t \in TxIds |-> NoCode]
    /\ payments = [t \in TxIds |-> NoPayment]
    /\ now = 0
    /\ commands = {}
    /\ events = {}
    /\ dups = 0
    /\ sent = {}
    /\ pre = [t \in TxIds |-> NoAccount]
    /\ applied = [t \in TxIds |-> 0]
    /\ rt = NoRt

Init ==
    /\ InitCommon
    /\ customers \in [CustomerIds -> NewAccounts({2 * Price}, {2 * Price})]

\* ================================================= Spec: the services and the bus
\* What the bus does with a delivered message: the handler acknowledged it,
\* and the bus either drops it or (at-least-once) delivers it again later.
Delivered(queue, m) ==
    \/ /\ queue' = queue \ {m}
       /\ dups' = dups
    \/ /\ dups < MaxDup
       /\ queue' = queue
       /\ dups' = dups + 1

ParticipantFrame ==
    UNCHANGED <<customers, applied, rt, vehicles, payment_codes, payments, now>>

\* A subscription of subscribe_to_all_events: an event in flight is handed to
\* its handler; the commands the handler publishes go on the bus.
OrchDelivered(m) ==
    /\ commands' = commands \cup Cmds(sent')
    /\ \/ /\ events' = (events \ {m}) \cup Evts(sent')
          /\ dups' = dups
       \/ /\ dups < MaxDup
          /\ events' = events \cup Evts(sent')
          /\ dups' = dups + 1
    /\ ParticipantFrame

Inbox(queue, kind) == {m \in queue : m.kind = kind}

\* A command subscription of a participant.
ParticipantDelivered(m) ==
    /\ events' = events \cup sent'
    /\ Delivered(commands, m)

PostPurchase ==
    \E c \in CustomerIds \cup {NoSuchId}, v \in VehicleIds \cup {NoSuchId},
       pt \in PaymentTypes :
        /\ start_purchase_saga(c, v, pt)
        /\ commands' = commands \cup Cmds(sent')
        /\ UNCHANGED <<events, dups>>
        /\ ParticipantFrame

PostCancel ==
    \E t \in TxIds \cup {NoSuchId} :
        /\ cancel_purchase(t)
        /\ commands' = commands \cup Cmds(sent')
        /\ events' = events \cup Evts(sent')
        /\ UNCHANGED dups
        /\ ParticipantFrame

CancelResume ==
    \E t \in TxIds :
        /\ cancel_purchase_resume(t)
        /\ UNCHANGED busVars
        /\ ParticipantFrame

OnCreditReserved ==
    \E m \in Inbox(events, "CreditReserved") :
        handle_credit_reserved_event(m) /\ OrchDelivered(m)

OnCreditReleased ==
    \E m \in Inbox(events, "CreditReleased") :
        handle_credit_released_event(m) /\ OrchDelivered(m)

OnVehicleReserved ==
    \E m \in Inbox(events, "VehicleReserved") :
        handle_vehicle_reserved_event(m) /\ OrchDelivered(m)

OnVehicleReservationFailed ==
    \E m \in Inbox(events, "VehicleReservationFailed") :
        handle_vehicle_reservation_failed_event(m) /\ OrchDelivered(m)

OnVehicleReleased ==
    \E m \in Inbox(events, "VehicleReleased") :
        handle_vehicle_released_event(m) /\ OrchDelivered(m)

\* applied counts, per transaction_id, the deliveries of ReserveCredit that
\* committed a deduction.
ReserveCredit ==
    /\ \E m \in Inbox(commands, "ReserveCredit") :
           handle_reserve_credit_command(m) /\ ParticipantDelivered(m)
    /\ applied' = [t \in TxIds |->
                      IF \E m \in sent' : /\ m.kind = "CreditReserved"
                                            /\ m.transaction_id = t
                      THEN applied[t] + 1 ELSE applied[t]]
    /\ UNCHANGED <<rt, vehicles, payment_codes, payments, now>>
    /\ httpResp' = NoResp
    /\ UNCHANGED orchVars

ReleaseCredit ==
    /\ \E m \in Inbox(commands, "ReleaseCredit") :
           handle_release_credit_command(m) /\ ParticipantDelivered(m)
    /\ UNCHANGED <<applied, rt, vehicles, payment_codes, payments, now>>
    /\ httpResp' = NoResp
    /\ UNCHANGED orchVars

ReserveVehicle ==
    /\ \E m \in Inbox(commands, "ReserveVehicle") :
           handle_reserve_vehicle_command(m) /\ ParticipantDelivered(m)
    /\ UNCHANGED <<customers, applied, rt, payment_codes, payments, now>>
    /\ httpResp' = NoResp
    /\ UNCHANGED orchVars

ReleaseVehicle ==
    /\ \E m \in Inbox(commands, "ReleaseVehicle") :
           handle_release_vehicle_command(m) /\ ParticipantDelivered(m)
    /\ UNCHANGED <<customers, applied, rt, payment_codes, payments, now>>
    /\ httpResp' = NoResp
    /\ UNCHANGED orchVars

GeneratePaymentCode ==
    /\ \E m \in Inbox(commands, "GeneratePaymentCode") :
           handle_generate_payment_code_command(m) /\ ParticipantDelivered(m)
    /\ UNCHANGED <<customers, applied, rt, vehicles, payments, now>>
    /\ httpResp' = NoResp
    /\ UNCHANGED orchVars

Next ==
    \/ PostPurchase
    \/ PostCancel
    \/ CancelResume
    \/ OnCreditReserved
    \/ OnCreditReleased
    \/ OnVehicleReserved
    \/ OnVehicleReservationFailed
    \/ OnVehicleReleased
    \/ ReserveCredit
    \/ ReleaseCredit
    \/ ReserveVehicle
    \/ ReleaseVehicle
    \/ GeneratePaymentCode

Spec == Init /\ [][Next]_vars

\* ============================== OrchSpec: the orchestrator, fed with every event
\* A delivery on one of the event subscriptions; the handlers read the
\* transaction_id of the event and nothing else.
OrchEvent(kind, t) == Msg(kind, t, NoSuchId, NoSuchId, 0, "none")

OrchReceived ==
    /\ UNCHANGED busVars
    /\ ParticipantFrame

RecvCreditReserved ==
    \E t \in TxIds \cup {NoSuchId} :
        handle_credit_reserved_event(OrchEvent("CreditReserved", t)) /\ OrchReceived
RecvCreditReservationFailed ==
    \E t \in TxIds \cup {NoSuchId} :
        handle_credit_reservation_failed_event(OrchEvent("CreditReservationFailed", t)) /\ OrchReceived
RecvCreditReleased ==
    \E t \in TxIds \cup {NoSuchId} :
        handle_credit_released_event(OrchEvent("CreditReleased", t)) /\ OrchReceived
RecvVehicleReserved ==
    \E t \in TxIds \cup {NoSuchId} :
        handle_vehicle_reserved_event(OrchEvent("VehicleReserved", t)) /\ OrchReceived
RecvVehicleReservationFailed ==
    \E t \in TxIds \cup {NoSuchId} :
        handle_vehicle_reservation_failed_event(OrchEvent("VehicleReservationFailed", t)) /\ OrchReceived
RecvVehicleReleased ==
    \E t \in TxIds \cup {NoSuchId} :
        handle_vehicle_released_event(OrchEvent("VehicleReleased", t)) /\ OrchReceived
RecvPaymentCodeGenerated ==
    \E t \in TxIds \cup {NoSuchId} :
        handle_payment_code_generated_event(OrchEvent("PaymentCodeGenerated", t)) /\ OrchReceived
RecvPaymentCodeGenerationFailed ==
    \E t \in TxIds \cup {NoSuchId} :
        handle_payment_code_generation_failed_event(OrchEvent("PaymentCodeGenerationFailed", t)) /\ OrchReceived
RecvPaymentProcessed ==
    \E t \in TxIds \cup {NoSuchId} :
        handle_payment_processed_event(OrchEvent("PaymentProcessed", t)) /\ OrchReceived
RecvPaymentFailed ==
    \E t \in TxIds \cup {NoSuchId} :
        handle_payment_failed_event(OrchEvent("PaymentFailed", t)) /\ OrchReceived
RecvPaymentRefunded ==
    \E t \in TxIds \cup {NoSuchId} :
        handle_payment_refunded_event(OrchEvent("PaymentRefunded", t)) /\ OrchReceived
RecvPaymentRefundFailed ==
    \E t \in TxIds \cup {NoSuchId} :
        handle_payment_refund_failed_event(OrchEvent("PaymentRefundFailed", t)) /\ OrchReceived
RecvInvalidEvent == handle_invalid_event /\ OrchReceived

\* The HTTP endpoints, the published commands left to the outside.
OrchPostPurchase ==
    \E c \in CustomerIds \cup {NoSuchId}, v \in VehicleIds \cup {NoSuchId},
       pt \in PaymentTypes :
        start_purchase_saga(c, v, pt) /\ OrchReceived

OrchPostCancel ==
    \E t \in TxIds \cup {NoSuchId} : cancel_purchase(t) /\ OrchReceived

OrchCancelResume ==
    \E t \in TxIds : cancel_purchase_resume(t) /\ OrchReceived

MarkAsSoldAnswered ==
    \E t \in TxIds, outcome \in MarkAsSoldOutcomes :
        /\ payment_processed_resume(t, outcome)
        /\ UNCHANGED <<customers, applied, rt, payment_codes, payments, now>>
        /\ UNCHANGED busVars

OrchNext ==
    \/ OrchPostPurchase
    \/ OrchPostCancel
    \/ OrchCancelResume
    \/ RecvCreditReserved
    \/ RecvCreditReservationFailed
    \/ RecvCreditReleased
    \/ RecvVehicleReserved
    \/ RecvVehicleReservationFailed
    \/ RecvVehicleReleased
    \/ RecvPaymentCodeGenerated
    \/ RecvPaymentCodeGenerationFailed
    \/ RecvPaymentProcessed
    \/ RecvPaymentFailed
    \/ RecvPaymentRefunded
    \/ RecvPaymentRefundFailed
    \/ RecvInvalidEvent
    \/ MarkAsSoldAnswered

OrchSpec == Init /\ [][OrchNext]_vars

\* ================== VehicleSpec: the vehicle participant, fed with every request
VehicleFrame == UNCHANGED <<customers, applied, rt, payment_codes, payments, now,
                            commands, events,
                            dups, saga, nextTx, cancelTask, soldTask, pre>>

\* The transaction ids of the commands the vehicle service is fed: those of
\* the sagas and that of one saga more, buying the same vehicle.
VehicleTxIds == 1..(MaxTx + 1)

VehicleCommands(kind) ==
    {Msg(kind, t, 0, v, 0, "none") :
        t \in VehicleTxIds, v \in VehicleIds \cup {NoSuchId}}

RecvReserveVehicle ==
    \E m \in VehicleCommands("ReserveVehicle") :
        /\ handle_reserve_vehicle_command(m)
        /\ httpResp' = NoResp
        /\ VehicleFrame

RecvReleaseVehicle ==
    \E m \in VehicleCommands("ReleaseVehicle") :
        /\ handle_release_vehicle_command(m)
        /\ httpResp' = NoResp
        /\ VehicleFrame

PatchMarkAsSold ==
    \E v \in VehicleIds \cup {NoSuchId} :
        /\ mark_vehicle_as_sold(v)
        /\ sent' = {}
        /\ VehicleFrame

PutVehicle ==
    \E v \in VehicleIds \cup {NoSuchId}, price \in Money \ {0} :
        /\ update_vehicle(v, price)
        /\ sent' = {}
        /\ VehicleFrame

VehicleNext ==
    \/ RecvReserveVehicle
    \/ RecvReleaseVehicle
    \/ PatchMarkAsSold
    \/ PutVehicle

VehicleSpec == Init /\ [][VehicleNext]_vars

\* ==================== CreditSpec: the credit participant, fed with every command
CreditFrame == UNCHANGED <<applied, vehicles, payment_codes, payments, now,
                           commands, events, dups,
                           saga, nextTx, cancelTask, soldTask, pre>>

CreditCommands(kind) ==
    {Msg(kind, t, c, 0, a, pt) :
        t \in TxIds, c \in CustomerIds \cup {NoSuchId}, a \in Money \ {0},
        pt \in PaymentTypes}

SameCommand(m) ==
    /\ rt.transaction_id = m.transaction_id
    /\ rt.customer_id = m.customer_id
    /\ rt.amount = m.amount
    /\ rt.payment_type = m.payment_type

\* rt follows a ReserveCredit that succeeded and the ReleaseCredit of the
\* same (t, c, a, pt) handled next on that customer.
RecvReserveCredit ==
    \E m \in CreditCommands("ReserveCredit") :
        /\ handle_reserve_credit_command(m)
        /\ rt' = IF \E e \in sent' : e.kind = "CreditReserved"
                 THEN [phase |-> "reserved", transaction_id |-> m.transaction_id,
                       customer_id |-> m.customer_id, amount |-> m.amount,
                       payment_type |-> m.payment_type,
                       before |-> customers[m.customer_id]]
                 ELSE rt
        /\ httpResp' = NoResp
        /\ CreditFrame

\* The first conjunct keeps a cash balance within MaxMoney.
RecvReleaseCredit ==
    \E m \in CreditCommands("ReleaseCredit") :
        /\ (m.customer_id \in CustomerIds /\ m.payment_type = "cash")
              => customers[m.customer_id].account_balance + m.amount <= MaxMoney
        /\ handle_release_credit_command(m)
        /\ rt' = IF rt.phase = "reserved" /\ SameCommand(m)
                 THEN [rt EXCEPT !.phase = "released"]
                 ELSE IF m.customer_id = rt.customer_id THEN NoRt ELSE rt
        /\ httpResp' = NoResp
        /\ CreditFrame

CreditInit ==
    /\ InitCommon
    /\ customers \in [CustomerIds -> NewAccounts(Money, Money)]

CreditNext == RecvReserveCredit \/ RecvReleaseCredit

CreditSpec == CreditInit /\ [][CreditNext]_vars

\* ================ PaymentSpec: the payment participant, fed with every command,
\* and its clock
PaymentFrame ==
    /\ httpResp' = NoResp
    /\ UNCHANGED <<customers, applied, rt, vehicles, commands, events, dups,
                   saga, nextTx, cancelTask, soldTask, pre>>

PaymentCommands(kind) ==
    {Msg(kind, t, c, v, a, pt) :
        t \in TxIds, c \in CustomerIds, v \in VehicleIds, a \in Money \ {0},
        pt \in PaymentTypes}

RecvGeneratePaymentCode ==
    \E m \in PaymentCommands("GeneratePaymentCode") :
        /\ handle_generate_payment_code_command(m)
        /\ UNCHANGED <<payments, now>>
        /\ PaymentFrame

RecvProcessPayment ==
    \E t \in TxIds \cup {NoSuchId} :
        /\ handle_process_payment_command(Msg("ProcessPayment", t, 0, 0, 0, "none"))
        /\ UNCHANGED now
        /\ PaymentFrame

\* Time passes between two handlers.
Tick ==
    /\ now < MaxClock
    /\ now' = now + 1
    /\ sent' = {}
    /\ UNCHANGED <<payment_codes, payments>>
    /\ PaymentFrame

PaymentNext == RecvGeneratePaymentCode \/ RecvProcessPayment \/ Tick

PaymentSpec == Init /\ [][PaymentNext]_vars

\* ====== PurchaseSpec: POST /purchase and the ReserveCredit that follows it, on
\* every account and every vehicle row the services can hold
VehicleRows ==
    {[price |-> p, is_reserved |-> r, is_sold |-> s] :
        p \in Money \ {0}, r \in BOOLEAN, s \in BOOLEAN} \
    {row \in [price : Money, is_reserved : BOOLEAN, is_sold : BOOLEAN] :
        row.is_reserved /\ row.is_sold}

PurchaseInit ==
    /\ saga = [t \in TxIds |-> NoSaga]
    /\ nextTx = 1
    /\ cancelTask = [t \in TxIds |-> "none"]
    /\ soldTask = [t \in TxIds |-> FALSE]
    /\ httpResp = NoResp
    /\ vehicles \in [VehicleIds -> VehicleRows]
    /\ customers \in [CustomerIds -> NewAccounts(Money, Money)]
    /\ payment_codes = [t \in TxIds |-> NoCode]
    /\ payments = [t \in TxIds |-> NoPayment]
    /\ now = 0
    /\ commands = {}
    /\ events = {}
    /\ dups = 0
    /\ sent = {}
    /\ pre = [t \in TxIds |-> NoAccount]
    /\ applied = [t \in TxIds |-> 0]
    /\ rt = NoRt

PurchaseNext == PostPurchase \/ ReserveCredit

PurchaseSpec == PurchaseInit /\ [][PurchaseNext]_vars

\* ===== SettleSpec: the orchestrator, fed with every event, and the payment
\* participant, which receives the payment commands the orchestrator publishes
PaymentCommandKinds == {"GeneratePaymentCode", "ProcessPayment"}

\* PaymentCodeGenerated and PaymentProcessed are fed for a transaction once
\* the row they report is committed.
\* The orchestrator's step: its payment commands go on the bus.
SettleOrchDelivered ==
    /\ commands' = commands \cup {m \in sent' : m.kind \in PaymentCommandKinds}
    /\ UNCHANGED <<events, dups>>
    /\ ParticipantFrame

SettleEvent ==
    \E t \in TxIds :
        /\ \/ handle_credit_reserved_event(OrchEvent("CreditReserved", t))
           \/ handle_credit_reservation_failed_event(
                  OrchEvent("CreditReservationFailed", t))
           \/ handle_credit_released_event(OrchEvent("CreditReleased", t))
           \/ handle_vehicle_reserved_event(OrchEvent("VehicleReserved", t))
           \/ handle_vehicle_reservation_failed_event(
                  OrchEvent("VehicleReservationFailed", t))
           \/ handle_vehicle_released_event(OrchEvent("VehicleReleased", t))
           \/ /\ payment_codes[t] # NoCode
              /\ handle_payment_code_generated_event(
                     OrchEvent("PaymentCodeGenerated", t))
           \/ handle_payment_code_generation_failed_event(
                  OrchEvent("PaymentCodeGenerationFailed", t))
           \/ /\ payments[t].status = "completed"
              /\ handle_payment_processed_event(OrchEvent("PaymentProcessed", t))
           \/ handle_payment_failed_event(OrchEvent("PaymentFailed", t))
           \/ handle_payment_refunded_event(OrchEvent("PaymentRefunded", t))
           \/ handle_payment_refund_failed_event(
                  OrchEvent("PaymentRefundFailed", t))
        /\ SettleOrchDelivered

SettlePostPurchase ==
    \E c \in CustomerIds, v \in VehicleIds, pt \in PaymentTypes :
        start_purchase_saga(c, v, pt) /\ SettleOrchDelivered

SettlePostCancel ==
    \E t \in TxIds : cancel_purchase(t) /\ SettleOrchDelivered

SettleCancelResume ==
    \E t \in TxIds : cancel_purchase_resume(t) /\ SettleOrchDelivered

ProcessPayment ==
    /\ \E m \in Inbox(commands, "ProcessPayment") :
           handle_process_payment_command(m) /\ ParticipantDelivered(m)
    /\ UNCHANGED <<customers, applied, rt, vehicles, now>>
    /\ httpResp' = NoResp
    /\ UNCHANGED orchVars

SettleNext ==
    \/ SettlePostPurchase
    \/ SettlePostCancel
    \/ SettleCancelResume
    \/ SettleEvent
    \/ MarkAsSoldAnswered
    \/ GeneratePaymentCode
    \/ ProcessPayment

SettleSpec == Init /\ [][SettleNext]_vars

\* ==================================================================== claims
\* C1: once a saga's status is terminal (COMPLETED, CANCELLED, FAILED,
\* FAILED_COMPENSATED, FAILED_REQUIRES_MANUAL_INTERVENTION), no later step
\* (an event delivery, duplicated or late, or a cancel request) changes its
\* status or its current_step.
C1_TerminalStatusIsFinal ==
    [][\A t \in TxIds :
          saga[t].status \in TerminalStatuses
              => /\ saga'[t].status = saga[t].status
                 /\ saga'[t].current_step = saga[t].current_step]_vars

\* C2: once a saga's status is CANCELLATION_REQUESTED, CANCELLING or
\* CANCELLED, no later step sets its status to IN_PROGRESS or COMPLETED.
C2_NoForwardStepAfterCancel ==
    [][\A t \in TxIds :
          saga[t].status \in CancellationStatuses
              => saga'[t].status \notin {"IN_PROGRESS", "COMPLETED"}]_vars

\* Every published message has been delivered and every handler has run to
\* its end.
Quiescent ==
    /\ commands = {}
    /\ events = {}
    /\ \A t \in TxIds : cancelTask[t] = "none" /\ ~soldTask[t]

\* C3: every saga created by a successful POST /purchase reaches a terminal
\* status; stated on finite runs: when nothing is left to deliver or to run,
\* every saga is in a terminal status.
C3_SagaTerminates ==
    Quiescent => \A t \in TxIds : Exists(t) => saga[t].status \in TerminalStatuses

\* C5: a saga in FAILED_COMPENSATED has left its customer's account_balance
\* and used_credit at their values from before the saga, and its vehicle
\* neither sold nor reserved (one saga per customer and vehicle, deliveries
\* may be duplicated).
C5_CompensatedRestores ==
    \A t \in TxIds :
        saga[t].status = "FAILED_COMPENSATED"
            => /\ customers[saga[t].customer_id].account_balance
                    = pre[t].account_balance
               /\ customers[saga[t].customer_id].used_credit = pre[t].used_credit
               /\ ~vehicles[saga[t].vehicle_id].is_sold
               /\ ~vehicles[saga[t].vehicle_id].is_reserved

\* C6: however many times ReserveCredit(t, c, a, pt) is delivered, the
\* deduction for transaction t is committed at most once.
C6_ReserveDeductsOnce == \A t \in TxIds : applied[t] <= 1

\* C7: handling ReserveCredit(t, c, a, pt) with success and then
\* ReleaseCredit(t, c, a, pt) leaves account_balance, used_credit and
\* credit_limit of customer c at their values from before the reserve.
C7_ReserveReleaseRoundTrip ==
    rt.phase = "released" => customers[rt.customer_id] = rt.before

\* C8: after every handling of ReserveCredit or ReleaseCredit, every customer
\* has account_balance >= 0 and 0 <= used_credit <= credit_limit.
C8_AccountInvariant ==
    \A c \in CustomerIds :
        /\ customers[c].account_balance >= 0
        /\ 0 <= customers[c].used_credit
        /\ customers[c].used_credit <= customers[c].credit_limit

\* C9: no vehicle is reserved and sold at once, and once a vehicle is sold no
\* operation (ReserveVehicle, ReleaseVehicle, mark_as_sold, vehicle update)
\* makes it unsold or reserved.
C9_SoldIsFinal ==
    [][\A v \in VehicleIds :
          /\ ~(vehicles[v].is_reserved /\ vehicles[v].is_sold)
          /\ ~(vehicles'[v].is_reserved /\ vehicles'[v].is_sold)
          /\ vehicles[v].is_sold
                => vehicles'[v].is_sold /\ ~vehicles'[v].is_reserved]_vars

\* C9's case: a vehicle is sold and a ReserveVehicle for it was just refused.
C9_SoldVehicleRefusedReserve ==
    \E v \in VehicleIds :
        /\ vehicles[v].is_sold
        /\ \E m \in sent : m.kind = "VehicleReservationFailed" /\ m.vehicle_id = v

\* C10: a cancel request for a saga in a terminal status is answered 400, one
\* for a saga in CANCELLING or CANCELLATION_REQUESTED is answered 409, and in
\* both cases the saga is left unchanged and nothing is published.
C10_CancelRejections ==
    [][\A t \in TxIds :
          (Exists(t) /\ cancel_purchase(t))
              => /\ saga[t].status \in TerminalStatuses
                    => httpResp'.code = 400 /\ saga' = saga /\ sent' = {}
                 /\ saga[t].status \in {"CANCELLING", "CANCELLATION_REQUESTED"}
                    => httpResp'.code = 409 /\ saga' = saga /\ sent' = {}]_vars

\* C11: a cancel request for a transaction_id with no saga record is answered
\* 404, creates no saga record, changes no saga, and publishes no command or
\* event.
C11_CancelUnknownTransaction ==
    [][\A t \in TxIds \cup {NoSuchId} :
          ((t \notin TxIds \/ saga[t] = NoSaga) /\ cancel_purchase(t))
              => /\ httpResp'.code = 404
                 /\ saga' = saga
                 /\ sent' = {}
                 /\ commands' = commands
                 /\ events' = events]_vars

\* C11's case: a saga exists and a cancel request for an unknown
\* transaction_id was just answered.
C11_UnknownCancelAnswered ==
    /\ httpResp.op = "cancel"
    /\ httpResp.transaction_id = NoSuchId
    /\ \E t \in TxIds : saga[t] # NoSaga

\* C12: a cancel request for a saga whose current_step is MARK_VEHICLE_AS_SOLD
\* or SAGA_COMPLETE is rejected: the answer is in the 400 class, the status
\* becomes CANCELLATION_FAILED, and a PurchaseCancellationFailed event is
\* published.
C12_LateCancelRejected ==
    [][\A t \in TxIds :
          (/\ saga[t] # NoSaga
           /\ saga[t].current_step \in {"MARK_VEHICLE_AS_SOLD", "SAGA_COMPLETE"}
           /\ saga[t].status \notin CancelRejected400 \cup CancelRejected409
           /\ cancel_purchase(t))
              => /\ httpResp'.code \in 400..499
                 /\ saga'[t].status = "CANCELLATION_FAILED"
                 /\ \E e \in sent' : /\ e.kind = "PurchaseCancellationFailed"
                                     /\ e.transaction_id = t]_vars

\* C13: after an accepted cancel request the saga reaches CANCELLED or
\* CANCELLATION_FAILED and does not stay in CANCELLATION_REQUESTED or
\* CANCELLING; stated on finite runs: when nothing is left to deliver or to
\* run, no saga is in CANCELLATION_REQUESTED or CANCELLING.
C13_CancellationTerminates ==
    Quiescent
        => \A t \in TxIds :
              saga[t].status \notin {"CANCELLATION_REQUESTED", "CANCELLING"}

\* C15: whenever POST /purchase answers with a 4xx (vehicle or customer not
\* found, vehicle sold or reserved, account_balance < price for cash,
\* available_credit < price for credit), no saga record is created and no
\* ReserveCredit command is published.
C15_RejectedPurchaseStartsNothing ==
    [][(httpResp'.op = "purchase" /\ httpResp'.code \in 400..499)
          => /\ saga' = saga
             /\ nextTx' = nextTx
             /\ \A m \in sent' \cup (commands' \ commands) :
                    m.kind # "ReserveCredit"]_vars

\* C15's case: POST /purchase was answered 400 although every vehicle is
\* free, that is, for lack of funds.
C15_UnderfundedPurchaseRejected ==
    /\ httpResp.op = "purchase"
    /\ httpResp.code = 400
    /\ \A v \in VehicleIds : ~vehicles[v].is_sold /\ ~vehicles[v].is_reserved

C17_ExpiryBoundary ==
    [][\A t \in TxIds :
          (/\ payment_codes[t] # NoCode
           /\ ~payment_codes[t].is_used
           /\ payments[t] = NoPayment
           /\ handle_process_payment_command(
                  Msg("ProcessPayment", t, 0, 0, 0, "none")))
              => /\ now >= payment_codes[t].expires_at
                    => /\ payment_codes' = payment_codes
                       /\ payments' = payments
                       /\ \E e \in sent' : /\ e.kind = "PaymentFailed"
                                           /\ e.transaction_id = t
                 /\ now < payment_codes[t].expires_at
                    => /\ payment_codes'[t].is_used
                       /\ payments'[t].status = "completed"]_vars

\* C18: handling ReserveCredit or ReleaseCredit with payment_type cash changes
\* only account_balance (used_credit, credit_limit and so available_credit
\* unchanged), and with payment_type credit changes only used_credit
\* (account_balance and credit_limit unchanged), on the customer of the
\* command only, and a command that is refused changes nothing; hence a
\* purchase made of cash commands leaves available_credit at its initial
\* value and one made of credit commands leaves account_balance at its
\* initial value.
C18_PaymentTypeFrame ==
    [][/\ \A e \in sent' :
            e.kind \in {"CreditReserved", "CreditReleased"}
                => \A c \in CustomerIds :
                      /\ customers'[c].credit_limit = customers[c].credit_limit
                      /\ e.payment_type = "cash"
                            => /\ customers'[c].used_credit
                                      = customers[c].used_credit
                               /\ available_credit(customers'[c])
                                      = available_credit(customers[c])
                      /\ e.payment_type = "credit"
                            => customers'[c].account_balance
                                  = customers[c].account_balance
                      /\ c # e.customer_id => customers'[c] = customers[c]
       /\ (\A e \in sent' : e.kind \notin {"CreditReserved", "CreditReleased"})
            => customers' = customers]_vars

\* C18's case: a cash ReserveCredit was handled and lowered the
\* account_balance.
C18_CashReserveHandled ==
    /\ rt.phase = "reserved"
    /\ rt.payment_type = "cash"
    /\ customers[rt.customer_id].account_balance < rt.before.account_balance

\* C19: handling ReleaseCredit(t, c, a, pt) twice leaves the account as
\* handling it once did: when the step before published CreditReleased for
\* (t, c, a, pt) and this step handles the same command again, the customers
\* table does not change.
C19_ReleaseIdempotent ==
    [][\A e \in sent \cap sent' :
          e.kind = "CreditReleased" => customers' = customers]_vars

\* C20: a forward success event (CreditReserved, VehicleReserved,
\* PaymentCodeGenerated, PaymentProcessed) handled while the saga is not
\* STARTED or IN_PROGRESS at the step that awaits it (CREDIT_RESERVATION,
\* VEHICLE_RESERVATION, PAYMENT_CODE_GENERATION, PAYMENT_PROCESSING) leaves
\* the saga table unchanged and publishes no command; and current_step never
\* moves from a forward step to an earlier one.
C20_ForwardEventsGuarded ==
    [][\A t \in TxIds :
          LET rank(step) ==
                  CASE step = "CREDIT_RESERVATION" -> 1
                    [] step = "VEHICLE_RESERVATION" -> 2
                    [] step = "PAYMENT_CODE_GENERATION" -> 3
                    [] step = "PAYMENT_PROCESSING" -> 4
                    [] step = "MARK_VEHICLE_AS_SOLD" -> 5
                    [] step = "SAGA_COMPLETE" -> 6
                    [] OTHER -> 0
              awaiting(step) ==
                  /\ saga[t].status \in {"STARTED", "IN_PROGRESS"}
                  /\ saga[t].current_step = step
              ignored == saga' = saga /\ Cmds(sent') = {}
          IN  saga[t] # NoSaga
                => /\ (/\ ~awaiting("CREDIT_RESERVATION")
                       /\ handle_credit_reserved_event(
                              OrchEvent("CreditReserved", t))) => ignored
                   /\ (/\ ~awaiting("VEHICLE_RESERVATION")
                       /\ handle_vehicle_reserved_event(
                              OrchEvent("VehicleReserved", t))) => ignored
                   /\ (/\ ~awaiting("PAYMENT_CODE_GENERATION")
                       /\ handle_payment_code_generated_event(
                              OrchEvent("PaymentCodeGenerated", t))) => ignored
                   /\ (/\ ~awaiting("PAYMENT_PROCESSING")
                       /\ handle_payment_processed_event(
                              OrchEvent("PaymentProcessed", t))) => ignored
                   /\ (/\ rank(saga[t].current_step) > 0
                       /\ rank(saga'[t].current_step) > 0)
                          => rank(saga'[t].current_step)
                                >= rank(saga[t].current_step)]_vars

\* C21: after POST /purchase answers 202, the persisted saga has the status
\* the response reports (IN_PROGRESS) and current_step CREDIT_RESERVATION,
\* its amount is the vehicle's price at that instant, and exactly one
\* ReserveCredit command carrying that amount has been published.
C21_AcceptedPurchaseRecord ==
    [][(httpResp'.op = "purchase" /\ httpResp'.code = 202)
          => LET t == httpResp'.transaction_id
             IN  /\ saga'[t].status = PurchaseResponseSagaStatus
                 /\ saga'[t].status = "IN_PROGRESS"
                 /\ saga'[t].current_step = "CREDIT_RESERVATION"
                 /\ saga'[t].amount = vehicles[saga'[t].vehicle_id].price
                 /\ \E m \in sent' :
                        /\ sent' = {m}
                        /\ m.kind = "ReserveCredit"
                        /\ m.transaction_id = t
                        /\ m.amount = saga'[t].amount]_vars

\* C22: when the initial ReserveCredit command is not published, the saga's
\* status becomes FAILED_INITIAL_COMMAND and POST /purchase answers 500; it
\* never answers 202 for a saga whose first command was not published.
C22_InitialPublishFailure ==
    [][(/\ httpResp'.op = "purchase"
        /\ nextTx' # nextTx
        /\ \A m \in sent' : m.kind # "ReserveCredit")
          => /\ httpResp'.code = 500
             /\ saga'[nextTx].status = "FAILED_INITIAL_COMMAND"]_vars

\* C23: compensation ordering after PaymentCodeGenerationFailed or
\* PaymentFailed.  (1) Handling either event for a saga in progress sets
\* COMPENSATING(VEHICLE_RELEASE) and publishes ReleaseVehicle.  (2) While a
\* saga is COMPENSATING, ReleaseCredit is published only by the handling of
\* VehicleReleased at VEHICLE_RELEASE, which moves to CREDIT_RELEASE, and the
\* saga never goes back from CREDIT_RELEASE to VEHICLE_RELEASE, so that
\* ReleaseCredit is published once per compensation.  (3) The status becomes
\* FAILED_COMPENSATED only by the handling of CreditReleased in
\* COMPENSATING(CREDIT_RELEASE).
C23_CompensationOrdering ==
    [][\A t \in TxIds :
          LET releasesCredit ==
                  \E m \in sent' : /\ m.kind = "ReleaseCredit"
                                   /\ m.transaction_id = t
              entersCompensation ==
                  /\ saga'[t].status = "COMPENSATING"
                  /\ saga'[t].current_step = "VEHICLE_RELEASE"
                  /\ sent' = {ReleaseVehicleCommand(t)}
          IN  saga[t] # NoSaga
                => /\ (/\ saga[t].status = "IN_PROGRESS"
                       /\ \/ handle_payment_code_generation_failed_event(
                                 OrchEvent("PaymentCodeGenerationFailed", t))
                          \/ handle_payment_failed_event(
                                 OrchEvent("PaymentFailed", t)))
                          => entersCompensation
                   /\ (saga[t].status = "COMPENSATING" /\ releasesCredit)
                          => /\ saga[t].current_step = "VEHICLE_RELEASE"
                             /\ saga'[t].current_step = "CREDIT_RELEASE"
                             /\ handle_vehicle_released_event(
                                    OrchEvent("VehicleReleased", t))
                   /\ (/\ saga[t].status = "COMPENSATING"
                       /\ saga[t].current_step = "CREDIT_RELEASE")
                          => ~(/\ saga'[t].status = "COMPENSATING"
                               /\ saga'[t].current_step = "VEHICLE_RELEASE")
                   /\ (/\ saga'[t].status = "FAILED_COMPENSATED"
                       /\ saga[t].status # "FAILED_COMPENSATED")
                          => /\ saga[t].status = "COMPENSATING"
                             /\ saga[t].current_step = "CREDIT_RELEASE"
                             /\ handle_credit_released_event(
                                    OrchEvent("CreditReleased", t))]_vars

\* C24: cancellation dispatch by original step.  An accepted cancel at
\* STARTED or CREDIT_RESERVATION publishes only ReleaseCredit and sets
\* current_step to CANCELLATION_CREDIT_RELEASE; at VEHICLE_RESERVATION,
\* PAYMENT_CODE_GENERATION or PAYMENT_PROCESSING it publishes only
\* ReleaseVehicle and sets current_step to CANCELLATION_VEHICLE_RELEASE, and
\* from then on ReleaseCredit is published for that saga only by the handling
\* of a VehicleReleased in CANCELLING(CANCELLATION_VEHICLE_RELEASE).
C24_CancellationDispatch ==
    [][\A t \in TxIds :
          LET accepted ==
                  /\ saga[t].status \notin CancelRejected400 \cup CancelRejected409
                  /\ cancel_purchase(t)
              releasesCredit ==
                  \E m \in sent' : /\ m.kind = "ReleaseCredit"
                                   /\ m.transaction_id = t
          IN  saga[t] # NoSaga
                => /\ (/\ saga[t].current_step \in {"STARTED", "CREDIT_RESERVATION"}
                       /\ accepted)
                          => /\ sent' = {ReleaseCreditCommand(t)}
                             /\ cancelTask'[t] = "CANCELLATION_CREDIT_RELEASE"
                   /\ (/\ saga[t].current_step \in
                              {"VEHICLE_RESERVATION", "PAYMENT_CODE_GENERATION",
                               "PAYMENT_PROCESSING"}
                       /\ accepted)
                          => /\ sent' = {ReleaseVehicleCommand(t)}
                             /\ cancelTask'[t] = "CANCELLATION_VEHICLE_RELEASE"
                   /\ (cancelTask[t] # "none" /\ cancel_purchase_resume(t))
                          => saga'[t].current_step = cancelTask[t]
                   /\ (/\ saga[t].status = "CANCELLING"
                       /\ \/ cancelTask[t] = "CANCELLATION_VEHICLE_RELEASE"
                          \/ saga[t].current_step = "CANCELLATION_VEHICLE_RELEASE"
                       /\ releasesCredit)
                          => /\ saga[t].current_step = "CANCELLATION_VEHICLE_RELEASE"
                             /\ handle_vehicle_released_event(
                                    OrchEvent("VehicleReleased", t))]_vars

\* C25: when CreditReleased is handled for a saga in
\* CANCELLING(CANCELLATION_CREDIT_RELEASE), the persisted saga becomes
\* CANCELLED(CANCELLATION_COMPLETE) and a PurchaseCancelled event is published
\* for it.
C25_CancellationCompletes ==
    [][\A t \in TxIds :
          (/\ saga[t].status = "CANCELLING"
           /\ saga[t].current_step = "CANCELLATION_CREDIT_RELEASE"
           /\ handle_credit_released_event(OrchEvent("CreditReleased", t)))
              => /\ saga'[t].status = "CANCELLED"
                 /\ saga'[t].current_step = "CANCELLATION_COMPLETE"
                 /\ \E e \in sent' : /\ e.kind = "PurchaseCancelled"
                                     /\ e.transaction_id = t]_vars

\* C26: a VehicleReleased or CreditReleased handled for a saga whose status
\* is neither CANCELLING nor COMPENSATING leaves the saga table unchanged and
\* publishes nothing; handled in CANCELLING it stays within the cancellation
\* statuses and steps, and handled in COMPENSATING within the compensation
\* statuses and steps.
C26_ReleaseEventsBranchOnStatus ==
    [][\A t \in TxIds :
          (/\ saga[t] # NoSaga
           /\ \/ handle_vehicle_released_event(OrchEvent("VehicleReleased", t))
              \/ handle_credit_released_event(OrchEvent("CreditReleased", t)))
              => /\ saga[t].status \notin {"CANCELLING", "COMPENSATING"}
                    => saga' = saga /\ sent' = {}
                 /\ saga[t].status = "CANCELLING"
                    => /\ saga'[t].status \in {"CANCELLING", "CANCELLED"}
                       /\ saga'[t].current_step \in
                              {saga[t].current_step, "CANCELLATION_CREDIT_RELEASE",
                               "CANCELLATION_COMPLETE"}
                 /\ saga[t].status = "COMPENSATING"
                    => /\ saga'[t].status \in {"COMPENSATING", "FAILED_COMPENSATED"}
                       /\ saga'[t].current_step \in
                              {saga[t].current_step, "CREDIT_RELEASE",
                               "COMPENSATION_COMPLETE"}]_vars

\* C26's case: a saga was compensated (CreditReleased handled in COMPENSATING)
\* and the step just taken left it so and published nothing.
C26_ReleaseEventAfterCompensation ==
    \E t \in TxIds :
        /\ saga[t].status = "FAILED_COMPENSATED"
        /\ saga[t].current_step = "COMPENSATION_COMPLETE"
        /\ sent = {}
        /\ httpResp = NoResp

\* C27: handling PaymentProcessed for a saga found sets
\* IN_PROGRESS(MARK_VEHICLE_AS_SOLD) and starts the mark-as-sold call; when
\* the call has answered or failed, whatever the way, the saga is COMPLETED
\* (SAGA_COMPLETE) if the vehicle was marked sold and
\* FAILED_REQUIRES_MANUAL_INTERVENTION otherwise: it does not stay
\* IN_PROGRESS(MARK_VEHICLE_AS_SOLD).
C27_MarkAsSoldOutcome ==
    [][\A t \in TxIds :
          /\ (/\ saga[t] # NoSaga
              /\ handle_payment_processed_event(OrchEvent("PaymentProcessed", t)))
                 => /\ saga'[t].status = "IN_PROGRESS"
                    /\ saga'[t].current_step = "MARK_VEHICLE_AS_SOLD"
                    /\ soldTask'[t]
          /\ \A outcome \in MarkAsSoldOutcomes :
                 payment_processed_resume(t, outcome)
                    => IF outcome = "ok"
                       THEN /\ saga'[t].status = "COMPLETED"
                            /\ saga'[t].current_step = "SAGA_COMPLETE"
                       ELSE saga'[t].status = "FAILED_REQUIRES_MANUAL_INTERVENTION"]_vars

\* C28: when the vehicle participant's answer to a ReserveVehicle delivered
\* again, a second VehicleReserved or a VehicleReservationFailed, is handled
\* for a saga in progress whose vehicle is reserved, the saga does not enter
\* COMPENSATING or a failed status, no release command is published and the
\* vehicle stays reserved.
C28_RedeliveredReserveVehicle ==
    [][\A t \in TxIds :
          (/\ saga[t] # NoSaga
           /\ saga[t].status = "IN_PROGRESS"
           /\ saga[t].vehicle_id \in VehicleIds
           /\ vehicles[saga[t].vehicle_id].is_reserved
           /\ ~vehicles[saga[t].vehicle_id].is_sold
           /\ \E m \in events :
                 /\ m.transaction_id = t
                 /\ \/ /\ m.kind = "VehicleReserved"
                       /\ handle_vehicle_reserved_event(m)
                    \/ /\ m.kind = "VehicleReservationFailed"
                       /\ handle_vehicle_reservation_failed_event(m))
              => /\ saga'[t].status = "IN_PROGRESS"
                 /\ \A c \in sent' : c.kind \notin {"ReleaseCredit", "ReleaseVehicle"}
                 /\ vehicles'[saga[t].vehicle_id].is_reserved]_vars

\* C29: when a ReserveCredit that cannot be applied is handled (customer not
\* found, amount above the balance for cash, amount above available_credit
\* for credit, payment_type unsupported), the accounts are unchanged and a
\* CreditReservationFailed event is published for its transaction_id; the
\* orchestrator handling that event sets FAILED(CREDIT_RESERVATION_FAILED)
\* and publishes no command.
C29_ReserveCreditRejected ==
    [][/\ \A m \in CreditCommands("ReserveCredit") :
             (/\ \/ m.customer_id \notin CustomerIds
                 \/ ReserveRejected(customers[m.customer_id], m.amount,
                                    m.payment_type)
              /\ handle_reserve_credit_command(m))
                 => /\ customers' = customers
                    /\ \E e \in sent' :
                           /\ e.kind = "CreditReservationFailed"
                           /\ e.transaction_id = m.transaction_id
       /\ \A t \in TxIds :
             (/\ saga[t] # NoSaga
              /\ handle_credit_reservation_failed_event(
                     OrchEvent("CreditReservationFailed", t)))
                 => /\ saga'[t].status = "FAILED"
                    /\ saga'[t].current_step = "CREDIT_RESERVATION_FAILED"
                    /\ sent' = {}]_vars

\* C30: every release command handled publishes its release event: a handled
\* ReleaseVehicle publishes VehicleReleased and a handled ReleaseCredit
\* publishes CreditReleased, for the command's transaction_id, also when the
\* vehicle or the customer named does not exist and when the vehicle is not
\* reserved or is sold.
C30_ReleaseAnswered ==
    [][/\ \A m \in VehicleCommands("ReleaseVehicle") :
             (handle_release_vehicle_command(m) /\ httpResp' = NoResp)
                 => \E e \in sent' : /\ e.kind = "VehicleReleased"
                                     /\ e.transaction_id = m.transaction_id
       /\ \A m \in CreditCommands("ReleaseCredit") :
             (handle_release_credit_command(m) /\ httpResp' = NoResp)
                 => \E e \in sent' : /\ e.kind = "CreditReleased"
                                     /\ e.transaction_id = m.transaction_id]_vars

\* C31: every GeneratePaymentCode handled leaves one payment code row for
\* its transaction_id, the row created unused and expiring CodeLifetime
\* after its creation on the first delivery and left as it is on the later
\* ones, and publishes a PaymentCodeGenerated for that transaction_id.
C31_GeneratePaymentCodeIdempotent ==
    [][\A m \in PaymentCommands("GeneratePaymentCode") :
          (/\ handle_generate_payment_code_command(m)
           /\ payments' = payments
           /\ now' = now)
              => LET t == m.transaction_id
                 IN  /\ payment_codes'[t] # NoCode
                     /\ IF payment_codes[t] = NoCode
                        THEN /\ ~payment_codes'[t].is_used
                             /\ payment_codes'[t].expires_at = now + CodeLifetime
                        ELSE payment_codes'[t] = payment_codes[t]
                     /\ \E e \in sent' : /\ e.kind = "PaymentCodeGenerated"
                                         /\ e.transaction_id = t]_vars

\* C32: ProcessPayment is idempotent per transaction_id: a payment code is
\* marked used exactly when a completed payment record exists for its
\* transaction, and whenever the payment of a transaction is completed, a
\* ProcessPayment delivered for it leaves the payment record and the code as
\* they are and publishes PaymentProcessed for it and no PaymentFailed.
C32_ProcessPaymentIdempotent ==
    \A t \in TxIds :
        /\ payment_codes[t].is_used <=> payments[t].status = "completed"
        /\ payments[t].status = "completed"
              => ENABLED (/\ handle_process_payment_command(
                                 Msg("ProcessPayment", t, 0, 0, 0, "none"))
                          /\ payments' = payments
                          /\ payment_codes' = payment_codes
                          /\ \E e \in sent' : /\ e.kind = "PaymentProcessed"
                                              /\ e.transaction_id = t
                          /\ \A e \in sent' : e.kind # "PaymentFailed")

\* C33: a PaymentProcessed handled for a saga whose status is CANCELLING
\* does not start the mark-as-sold call and leaves the saga on the
\* cancellation path: its status stays CANCELLING and its current_step stays
\* a cancellation step, and no vehicle is marked sold on its behalf.
C33_LatePaymentProcessedKeepsCancelling ==
    [][\A t \in TxIds :
          (/\ saga[t].status = "CANCELLING"
           /\ handle_payment_processed_event(OrchEvent("PaymentProcessed", t)))
              => /\ saga'[t].status = "CANCELLING"
                 /\ saga'[t].current_step = saga[t].current_step
                 /\ ~soldTask'[t]]_vars

C35_CommitBeforePublish ==
    [][\A t \in TxIds :
          /\ \A m \in events :
                (/\ m.transaction_id = t
                 /\ \/ /\ m.kind = "CreditReleased"
                       /\ handle_credit_released_event(m)
                    \/ /\ m.kind = "VehicleReleased"
                       /\ handle_vehicle_released_event(m))
                   => cancelTask[t] = "none"
          /\ (\E e \in sent' : /\ e.kind = "PurchaseCancelled"
                               /\ e.transaction_id = t)
                => saga'[t].status = "CANCELLED"]_vars

\* C36: the handling of two inputs for one transaction_id is serialized on
\* the saga row: while a cancel request or a PaymentProcessed handler is
\* suspended between its writes to the row of a saga, the row is changed by
\* no other handler, so that the write it makes when it resumes is made on
\* the row as it left it.
C36_HandlersSerializedPerSaga ==
    [][\A t \in TxIds :
          (/\ cancelTask[t] # "none" \/ soldTask[t]
           /\ saga'[t] # saga[t])
              => \/ cancelTask[t] # "none" /\ cancel_purchase_resume(t)
                 \/ soldTask[t] /\ \E outcome \in MarkAsSoldOutcomes :
                                       payment_processed_resume(t, outcome)]_vars

\* C37: a ReleaseVehicle handled on behalf of one transaction does not clear
\* the reservation of a vehicle just obtained by the ReserveVehicle of
\* another transaction, so that two sagas cannot both hold, and then both
\* complete on, one vehicle.
C37_ReleaseKeepsForeignReservation ==
    [][\A m \in VehicleCommands("ReleaseVehicle") :
          (/\ m.vehicle_id \in VehicleIds
           /\ \E e \in sent : /\ e.kind = "VehicleReserved"
                              /\ e.vehicle_id = m.vehicle_id
                              /\ e.transaction_id # m.transaction_id
           /\ handle_release_vehicle_command(m)
           /\ httpResp' = NoResp)
              => vehicles'[m.vehicle_id].is_reserved]_vars

C39_CompensationCompletes ==
    [][\A t \in TxIds :
          /\ saga[t].status = "COMPENSATING"
                => saga'[t].status \in {"COMPENSATING", "FAILED_COMPENSATED"}
          /\ Quiescent' => saga'[t].status # "COMPENSATING"]_vars

====
